---- MODULE Spec2Model ----
(***************************************************************************)
(* Model of @statebacked/machine's runtime helpers (src/src/rt.ts): the    *)
(* exported functions spawn, invocableSource, spawnPersistentInstance,     *)
(* spawnEphemeralInstance, persistentInvocableSource and sendTo, together  *)
(* with the two process-wide globals they consult and the host that        *)
(* installs them; and the request and state types of src/src/index.ts     *)
(* that the machine definition's callbacks are handed.                     *)
(*                                                                         *)
(* JavaScript values are tagged records: the field t is what typeof would  *)
(* distinguish (null keeps its own tag).  A property that is absent and a  *)
(* property that holds undefined both read as Undefined.                   *)
(***************************************************************************)
EXTENDS Integers, Sequences, FiniteSets, TLC

\* ---------------------------------------------------------------- bounds
\* How many distinct identifiers crypto.randomUUID() may draw.
NumUUIDs == 2
\* How many distinct values the host's spawn may return.
NumHookRefs == 1
\* How many times the model invokes the event function sendTo returned.
MaxInvocations == 2
\* How many states deep, root to leaf, the state values under consideration go.
MaxDepth == 3

\* ------------------------------------------------------------- JS values
Undefined == [t |-> "undefined"]
Null == [t |-> "null"]
Str(s) == [t |-> "string", s |-> s]
Num(n) == [t |-> "number", n |-> n]
\* A function written by the user or the host, known by its name only.
UserFn(name) == [t |-> "function", f |-> name]

\* typeof v
typeof(v) == IF v.t = "null" THEN "object" ELSE v.t

\* The left operand of ?? and of ?. is skipped when null or undefined.
Nullish(v) == v.t \in {"undefined", "null"}

\* The strings crypto.randomUUID() can return (36 characters each in the
\* program; here only that they are non-empty and told apart matters).
UUIDNames == <<"uuid-1", "uuid-2", "uuid-3", "uuid-4">>
UUIDs == {Str(UUIDNames[i]) : i \in 1..NumUUIDs}

\* ------------------------------------------------------------ the inputs
\* The last one carries properties of its own named type and id, which the
\* type does not declare and the spread of rt.ts:218 copies all the same.
PersistentInstanceDescriptors ==
  [t : {"object"},
   machineName : {Str("m")},
   machineInstanceName : {Undefined, Null, Str(""), Str("i")},
   machineVersionId : {Undefined, Str("ver_1")}]
  \cup {[t |-> "object", machineName |-> Str("m"),
          machineInstanceName |-> Str("i"), machineVersionId |-> Str("ver_1"),
          type |-> Str("own.type"), id |-> Str("own.id")]}

\* SpawnOptions; context is never read by the helpers and is left out.
SpawnOptionsSet ==
  {Undefined} \cup [t : {"object"}, name : {Undefined, Str(""), Str("n")}]

XStateSpawnables == {[t |-> "object", xstatenode |-> TRUE], UserFn("invokeCallback")}
NameOrOptionsSet == {Undefined, Str("child")}

ARef ==
  [t |-> "object", type |-> Str("statebacked.instance"), id |-> Str("a"),
   machineName |-> Str("m"), machineInstanceName |-> Str("i")]
Actors == {Str("actorId"), ARef, UserFn("actorFn")}
Events == {[t |-> "object", type |-> Str("EVT")], Undefined, UserFn("eventFn")}
SendOptsSet == {Undefined, [t |-> "object", delay |-> Num(100), id |-> Str("e1")]}

\* ------------------------------------------------- the host's runtime hook
\* What globalThis.__statebacked_rt can hold: nothing, an object whose spawn
\* is not a function, or an object whose spawn is the host's function.
RtStates ==
  {Undefined,
   [t |-> "object", spawn |-> Undefined],
   [t |-> "object", spawn |-> UserFn("hostSpawn")]}
\* What globalThis.__statebaked_rt can hold.
RtOldStates == {Undefined, [t |-> "object", spawn |-> UserFn("hostSpawn")]}

\* What a call of the host's spawn can end in: it is the host's code, so any
\* returned reference or a thrown error.
HostRef(i) == [t |-> "object", type |-> Str("statebacked.instance"), host |-> i]
HostError == [t |-> "error", name |-> "HostError"]
TypeError == [t |-> "error", name |-> "TypeError"]
HookOutcomes ==
  {[outcome |-> "return", value |-> HostRef(i)] : i \in 1..NumHookRefs}
    \cup {[outcome |-> "throw", value |-> HostError]}

VARIABLES
  rt,          \* globalThis.__statebacked_rt
  rtOld,       \* globalThis.__statebaked_rt, the global the first spawn reads
  last,        \* the most recent call of an exported function and what it did
  prevSource,  \* the persistentInvocableSource call before the most recent one
  invocations, \* results of invoking the event function sendTo returned
  stateValue,  \* a StateValue of index.ts, the state of a machine instance
  statePaths,  \* the StatePaths that StateValue was taken apart into
  recomposed,  \* the StateValue put together again from those StatePaths
  writeRequest \* a WriteRequest of index.ts, as handed to allowWrite

\* The variables of the helpers of rt.ts and those of the types of index.ts.
rtVars == <<rt, rtOld, last, prevSource, invocations>>
contractVars == <<stateValue, statePaths, recomposed, writeRequest>>
vars == <<rt, rtOld, last, prevSource, invocations,
          stateValue, statePaths, recomposed, writeRequest>>

\* ------------------------------------------------ what one call amounts to
\* The outcome of one call of an exported function: how it ended, what it
\* returned or threw, the identifiers it drew from crypto.randomUUID() in the
\* order drawn, its calls of a host function, its uses of a global, its calls
\* of functions it was handed, the object literals it built, and its arguments
\* and the two globals as it left them.
Effect(outcome, result, uuids, hookCalls, trace, constructed, argsAfter, rtAfter, rtOldAfter) ==
  [outcome |-> outcome, result |-> result, uuids |-> uuids,
   hookCalls |-> hookCalls, trace |-> trace, userCalls |-> <<>>,
   constructed |-> constructed,
   argsAfter |-> argsAfter, rtAfter |-> rtAfter, rtOldAfter |-> rtOldAfter]

\* typeof g?.spawn === "function" and g.spawn(...) on one of the two globals.
Check(global) == [op |-> "check", global |-> global]
Use(global) == [op |-> "use", global |-> global]
\* One call of the host's spawn: the global it was read from, the arguments
\* it was given and how it ended.
HookCall(global, args, h) ==
  [global |-> global, args |-> args, outcome |-> h.outcome, value |-> h.value]

\* g?.spawn
OptionalSpawn(g) == IF Nullish(g) THEN Undefined ELSE g.spawn
\* opts?.name
OptionalName(opts) == IF Nullish(opts) THEN Undefined ELSE opts.name

\* v ?? crypto.randomUUID(): the values it can yield, each with the
\* identifiers drawn to yield it.
OrRandomUUID(v) ==
  IF Nullish(v) THEN {[value |-> u, drawn |-> <<u>>] : u \in UUIDs}
  ELSE {[value |-> v, drawn |-> <<>>]}

\* v || crypto.randomUUID(): the empty string is falsy too.
OrFalsyRandomUUID(v) ==
  IF Nullish(v) \/ v = Str("") THEN {[value |-> u, drawn |-> <<u>>] : u \in UUIDs}
  ELSE {[value |-> v, drawn |-> <<>>]}

\* { ...instanceDescriptor, type: "statebacked.instance", id, machineInstanceName }
ActorRefLiteral(instanceDescriptor, id, machineInstanceName) ==
  [k \in DOMAIN instanceDescriptor \cup {"type", "id", "machineInstanceName"} |->
     CASE k = "type" -> Str("statebacked.instance")
       [] k = "id" -> id
       [] k = "machineInstanceName" -> machineInstanceName
       [] OTHER -> instanceDescriptor[k]]

\* An exported function is modelled by the set of effects a call of it can
\* have: one per value the host's spawn can end in and per identifier
\* crypto.randomUUID() can return.

\* Mutant: machineInstanceName: instanceDescriptor.machineInstanceName, with
\* the ?? crypto.randomUUID() forgotten.
spawnPersistentInstance_NoNameFallback(g, gOld, instanceDescriptor, opts) ==
  IF typeof(OptionalSpawn(g)) = "function"
  THEN {Effect(h.outcome, h.value, <<>>,
               <<HookCall("__statebacked_rt", <<instanceDescriptor, opts>>, h)>>,
               <<Check("__statebacked_rt"), Use("__statebacked_rt")>>, 0,
               <<instanceDescriptor, opts>>, g, gOld) : h \in HookOutcomes}
  ELSE {Effect("return",
               ActorRefLiteral(instanceDescriptor, id.value,
                               instanceDescriptor.machineInstanceName),
               id.drawn,
               <<>>, <<Check("__statebacked_rt")>>, 1,
               <<instanceDescriptor, opts>>, g, gOld) :
          id \in OrRandomUUID(OptionalName(opts))}

\* Mutant: the return before the host's call forgotten, so that the call is
\* made and the local reference is built and returned all the same.
spawnPersistentInstance_MissingReturn(g, gOld, instanceDescriptor, opts) ==
  UNION {
    IF typeof(OptionalSpawn(g)) = "function" /\ h.outcome = "throw"
    THEN {Effect(h.outcome, h.value, <<>>,
                 <<HookCall("__statebacked_rt", <<instanceDescriptor, opts>>, h)>>,
                 <<Check("__statebacked_rt"), Use("__statebacked_rt")>>, 0,
                 <<instanceDescriptor, opts>>, g, gOld)}
    ELSE {Effect("return",
                 ActorRefLiteral(instanceDescriptor, id.value, min.value),
                 id.drawn \o min.drawn,
                 IF typeof(OptionalSpawn(g)) = "function"
                 THEN <<HookCall("__statebacked_rt", <<instanceDescriptor, opts>>, h)>>
                 ELSE <<>>,
                 IF typeof(OptionalSpawn(g)) = "function"
                 THEN <<Check("__statebacked_rt"), Use("__statebacked_rt")>>
                 ELSE <<Check("__statebacked_rt")>>,
                 1, <<instanceDescriptor, opts>>, g, gOld) :
            id \in OrRandomUUID(OptionalName(opts)),
            min \in OrRandomUUID(instanceDescriptor.machineInstanceName)} :
    h \in HookOutcomes}

\* Mutant: globalThis.__statebacked_rt.spawn(...) with the typeof test
\* forgotten, and the local reference built only when that throws.
spawnPersistentInstance_Unchecked(g, gOld, instanceDescriptor, opts) ==
  IF ~Nullish(g) /\ typeof(g.spawn) = "function"
  THEN {Effect(h.outcome, h.value, <<>>,
               <<HookCall("__statebacked_rt", <<instanceDescriptor, opts>>, h)>>,
               <<Use("__statebacked_rt")>>, 0,
               <<instanceDescriptor, opts>>, g, gOld) : h \in HookOutcomes}
  ELSE {Effect("return",
               ActorRefLiteral(instanceDescriptor, id.value, min.value),
               id.drawn \o min.drawn,
               <<>>, <<Use("__statebacked_rt")>>, 1,
               <<instanceDescriptor, opts>>, g, gOld) :
          id \in OrRandomUUID(OptionalName(opts)),
          min \in OrRandomUUID(instanceDescriptor.machineInstanceName)}

\* Mutant: || written for ?? in both fields of the local reference.
spawnPersistentInstance_Or(g, gOld, instanceDescriptor, opts) ==
  IF typeof(OptionalSpawn(g)) = "function"
  THEN {Effect(h.outcome, h.value, <<>>,
               <<HookCall("__statebacked_rt", <<instanceDescriptor, opts>>, h)>>,
               <<Check("__statebacked_rt"), Use("__statebacked_rt")>>, 0,
               <<instanceDescriptor, opts>>, g, gOld) : h \in HookOutcomes}
  ELSE {Effect("return",
               ActorRefLiteral(instanceDescriptor, id.value, min.value),
               id.drawn \o min.drawn,
               <<>>, <<Check("__statebacked_rt")>>, 1,
               <<instanceDescriptor, opts>>, g, gOld) :
          id \in OrFalsyRandomUUID(OptionalName(opts)),
          min \in OrFalsyRandomUUID(instanceDescriptor.machineInstanceName)}

\* Mutant: if (globalThis.__statebacked_rt) written for the typeof test, so
\* that a spawn that is not a function is called.
spawnPersistentInstance_PresenceOnly(g, gOld, instanceDescriptor, opts) ==
  IF ~Nullish(g) /\ typeof(g.spawn) = "function"
  THEN {Effect(h.outcome, h.value, <<>>,
               <<HookCall("__statebacked_rt", <<instanceDescriptor, opts>>, h)>>,
               <<Check("__statebacked_rt"), Use("__statebacked_rt")>>, 0,
               <<instanceDescriptor, opts>>, g, gOld) : h \in HookOutcomes}
  ELSE IF ~Nullish(g)
  THEN {Effect("throw", TypeError, <<>>, <<>>,
               <<Check("__statebacked_rt"), Use("__statebacked_rt")>>, 0,
               <<instanceDescriptor, opts>>, g, gOld)}
  ELSE {Effect("return",
               ActorRefLiteral(instanceDescriptor, id.value, min.value),
               id.drawn \o min.drawn,
               <<>>, <<Check("__statebacked_rt")>>, 1,
               <<instanceDescriptor, opts>>, g, gOld) :
          id \in OrRandomUUID(OptionalName(opts)),
          min \in OrRandomUUID(instanceDescriptor.machineInstanceName)}

\* rt.ts:209 spawnPersistentInstance(instanceDescriptor, opts)
spawnPersistentInstance(g, gOld, instanceDescriptor, opts) ==
  IF typeof(OptionalSpawn(g)) = "function"
  THEN {Effect(h.outcome, h.value, <<>>,
               <<HookCall("__statebacked_rt", <<instanceDescriptor, opts>>, h)>>,
               <<Check("__statebacked_rt"), Use("__statebacked_rt")>>, 0,
               <<instanceDescriptor, opts>>, g, gOld) : h \in HookOutcomes}
  ELSE {Effect("return",
               ActorRefLiteral(instanceDescriptor, id.value, min.value),
               id.drawn \o min.drawn,
               <<>>, <<Check("__statebacked_rt")>>, 1,
               <<instanceDescriptor, opts>>, g, gOld) :
          id \in OrRandomUUID(OptionalName(opts)),
          min \in OrRandomUUID(instanceDescriptor.machineInstanceName)}

\* rt.ts:63 spawn(instanceDescriptor, opts): the first version of the helper.
\* It reads the global __statebaked_rt and reads opts.name without ?. .
spawn(g, gOld, instanceDescriptor, opts) ==
  IF typeof(OptionalSpawn(gOld)) = "function"
  THEN {Effect(h.outcome, h.value, <<>>,
               <<HookCall("__statebaked_rt", <<instanceDescriptor, opts>>, h)>>,
               <<Check("__statebaked_rt"), Use("__statebaked_rt")>>, 0,
               <<instanceDescriptor, opts>>, g, gOld) : h \in HookOutcomes}
  ELSE IF Nullish(opts)
  THEN {Effect("throw", TypeError, <<>>, <<>>, <<Check("__statebaked_rt")>>, 0,
               <<instanceDescriptor, opts>>, g, gOld)}
  ELSE {Effect("return",
               ActorRefLiteral(instanceDescriptor, id.value, min.value),
               id.drawn \o min.drawn,
               <<>>, <<Check("__statebaked_rt")>>, 1,
               <<instanceDescriptor, opts>>, g, gOld) :
          id \in OrRandomUUID(opts.name),
          min \in OrRandomUUID(instanceDescriptor.machineInstanceName)}

\* Mutant: globalThis.__statebacked_rt?.spawn?.(...), which yields undefined
\* instead of throwing when there is no spawn to call.
spawnEphemeralInstance_OptionalCall(g, gOld, entity, nameOrOptions) ==
  IF typeof(OptionalSpawn(g)) # "function"
  THEN {Effect("return", Undefined, <<>>, <<>>, <<Check("__statebacked_rt")>>, 0,
               <<entity, nameOrOptions>>, g, gOld)}
  ELSE {Effect(h.outcome, h.value, <<>>,
               <<HookCall("__statebacked_rt", <<entity, nameOrOptions>>, h)>>,
               <<Check("__statebacked_rt"), Use("__statebacked_rt")>>, 0,
               <<entity, nameOrOptions>>, g, gOld) : h \in HookOutcomes}

\* rt.ts:388 spawnEphemeralInstance(entity, nameOrOptions):
\* globalThis.__statebacked_rt.spawn(entity, nameOrOptions), with no test
\* before it.  Reading .spawn of undefined and calling a spawn that is not a
\* function both throw a TypeError.
spawnEphemeralInstance(g, gOld, entity, nameOrOptions) ==
  IF Nullish(g) \/ typeof(g.spawn) # "function"
  THEN {Effect("throw", TypeError, <<>>, <<>>, <<Use("__statebacked_rt")>>, 0,
               <<entity, nameOrOptions>>, g, gOld)}
  ELSE {Effect(h.outcome, h.value, <<>>,
               <<HookCall("__statebacked_rt", <<entity, nameOrOptions>>, h)>>,
               <<Use("__statebacked_rt")>>, 0,
               <<entity, nameOrOptions>>, g, gOld) : h \in HookOutcomes}

\* Mutant: || written for ??.
persistentInvocableSource_Or(g, gOld, instanceDescriptor) ==
  {Effect("return",
          [t |-> "object",
           type |-> Str("statebacked.invoke"),
           machineName |-> instanceDescriptor.machineName,
           machineInstanceName |-> min.value,
           machineVersionId |-> instanceDescriptor.machineVersionId],
          min.drawn, <<>>, <<>>, 1, <<instanceDescriptor>>, g, gOld) :
     min \in OrFalsyRandomUUID(instanceDescriptor.machineInstanceName)}

\* Mutant: the source is asked of the host's spawn when there is one, as the
\* spawn helper does.
persistentInvocableSource_Delegates(g, gOld, instanceDescriptor) ==
  IF typeof(OptionalSpawn(g)) = "function"
  THEN {Effect(h.outcome, h.value, <<>>,
               <<HookCall("__statebacked_rt", <<instanceDescriptor>>, h)>>,
               <<Check("__statebacked_rt"), Use("__statebacked_rt")>>, 0,
               <<instanceDescriptor>>, g, gOld) : h \in HookOutcomes}
  ELSE {Effect("return",
               [t |-> "object",
                type |-> Str("statebacked.invoke"),
                machineName |-> instanceDescriptor.machineName,
                machineInstanceName |-> min.value,
                machineVersionId |-> instanceDescriptor.machineVersionId],
               min.drawn, <<>>, <<>>, 1, <<instanceDescriptor>>, g, gOld) :
          min \in OrRandomUUID(instanceDescriptor.machineInstanceName)}

\* Mutant: instanceDescriptor.machineInstanceName ??= crypto.randomUUID(),
\* which writes the generated name into the caller's descriptor.
persistentInvocableSource_WritesBack(g, gOld, instanceDescriptor) ==
  {Effect("return",
          [t |-> "object",
           type |-> Str("statebacked.invoke"),
           machineName |-> instanceDescriptor.machineName,
           machineInstanceName |-> min.value,
           machineVersionId |-> instanceDescriptor.machineVersionId],
          min.drawn, <<>>, <<>>, 1,
          <<[instanceDescriptor EXCEPT !.machineInstanceName = min.value]>>,
          g, gOld) :
     min \in OrRandomUUID(instanceDescriptor.machineInstanceName)}

\* rt.ts:417 persistentInvocableSource(instanceDescriptor)
persistentInvocableSource(g, gOld, instanceDescriptor) ==
  {Effect("return",
          [t |-> "object",
           type |-> Str("statebacked.invoke"),
           machineName |-> instanceDescriptor.machineName,
           machineInstanceName |-> min.value,
           machineVersionId |-> instanceDescriptor.machineVersionId],
          min.drawn, <<>>, <<>>, 1, <<instanceDescriptor>>, g, gOld) :
     min \in OrRandomUUID(instanceDescriptor.machineInstanceName)}

\* rt.ts:102 invocableSource(instanceDescriptor): the same function under its
\* first name.
invocableSource(g, gOld, instanceDescriptor) ==
  {Effect("return",
          [t |-> "object",
           type |-> Str("statebacked.invoke"),
           machineName |-> instanceDescriptor.machineName,
           machineInstanceName |-> min.value,
           machineVersionId |-> instanceDescriptor.machineVersionId],
          min.drawn, <<>>, <<>>, 1, <<instanceDescriptor>>, g, gOld) :
     min \in OrRandomUUID(instanceDescriptor.machineInstanceName)}

\* () => event: a function that closes over the event it was built for.
Thunk(event) == [t |-> "function", f |-> "thunk", captured |-> event]
\* opts?.delay and opts?.id
OptionalDelay(opts) == IF Nullish(opts) THEN Undefined ELSE opts.delay
OptionalId(opts) == IF Nullish(opts) THEN Undefined ELSE opts.id

\* Mutant: event: event, with the wrapping of a value forgotten.
sendTo_NoThunk(g, gOld, actor, event, opts) ==
  {Effect("return",
          [t |-> "object",
           type |-> Str("xstate.send"),
           to |-> actor,
           event |-> event,
           delay |-> OptionalDelay(opts),
           id |-> OptionalId(opts)],
          <<>>, <<>>, <<>>, 1, <<actor, event, opts>>, g, gOld)}

\* Mutant: to: typeof actor === "function" ? actor() : actor, which resolves
\* the actor when the action object is built.
sendTo_ResolvesActor(g, gOld, actor, event, opts) ==
  {[Effect("return",
           [t |-> "object",
            type |-> Str("xstate.send"),
            to |-> IF typeof(actor) = "function" THEN Str("resolved") ELSE actor,
            event |-> IF typeof(event) = "function" THEN event ELSE Thunk(event),
            delay |-> OptionalDelay(opts),
            id |-> OptionalId(opts)],
           <<>>, <<>>, <<>>, 1, <<actor, event, opts>>, g, gOld)
      EXCEPT !.userCalls = IF typeof(actor) = "function" THEN <<actor>> ELSE <<>>]}

\* Mutant: event: () => event whatever the event is, so that a function is
\* wrapped in a further function.
sendTo_AlwaysWraps(g, gOld, actor, event, opts) ==
  {Effect("return",
          [t |-> "object",
           type |-> Str("xstate.send"),
           to |-> actor,
           event |-> Thunk(event),
           delay |-> OptionalDelay(opts),
           id |-> OptionalId(opts)],
          <<>>, <<>>, <<>>, 1, <<actor, event, opts>>, g, gOld)}

\* rt.ts:435 (and rt.ts:120) sendTo(actor, event, opts)
sendTo(g, gOld, actor, event, opts) ==
  {Effect("return",
          [t |-> "object",
           type |-> Str("xstate.send"),
           to |-> actor,
           event |-> IF typeof(event) = "function" THEN event ELSE Thunk(event),
           delay |-> OptionalDelay(opts),
           id |-> OptionalId(opts)],
          <<>>, <<>>, <<>>, 1, <<actor, event, opts>>, g, gOld)}

\* Calling a value with no arguments: the thunk sendTo built returns what it
\* closed over, a function of the user returns what the user wrote, and
\* anything else is not callable.
Invoke(fn) ==
  IF typeof(fn) # "function" THEN [outcome |-> "throw", value |-> TypeError]
  ELSE IF fn.f = "thunk" THEN [outcome |-> "return", value |-> fn.captured]
  ELSE [outcome |-> "return", value |-> [t |-> "object", type |-> Str(fn.f)]]

\* ------------------------------------------- the types of src/src/index.ts
\* The names states are drawn from.
StateNames == {"a", "b"}

RECURSIVE StateValuesOfDepth(_)
\* index.ts:322 StateValue = string | { [parentState: string]: StateValue },
\* at most d states deep: a state's name, or an object with a key for each
\* active child (several when the state is parallel) and at least one key.
StateValuesOfDepth(d) ==
  IF d <= 1 THEN {Str(n) : n \in StateNames}
  ELSE LET sub == StateValuesOfDepth(d - 1)
       IN {Str(n) : n \in StateNames}
            \cup {[t |-> "object", children |-> f] :
                    f \in UNION {[K -> sub] : K \in (SUBSET StateNames) \ {{}}}}

StateValue == StateValuesOfDepth(MaxDepth)

RECURSIVE Decompose_FirstRegion(_)
\* Mutant: only the first key of an object is followed, so that the other
\* regions of a parallel state are lost.
Decompose_FirstRegion(v) ==
  IF v.t = "string" THEN {<<v.s>>}
  ELSE LET k == CHOOSE n \in DOMAIN v.children : TRUE
       IN {<<k>> \o p : p \in Decompose_FirstRegion(v.children[k])}

RECURSIVE Decompose(_)
\* index.ts:386 StatePath = Array<string>: the paths from the root of the
\* machine, through the state hierarchy, to each single leaf state of v.
Decompose(v) ==
  IF v.t = "string" THEN {<<v.s>>}
  ELSE UNION {{<<k>> \o p : p \in Decompose(v.children[k])} :
                k \in DOMAIN v.children}

RECURSIVE Recompose(_)
\* The state value whose leaf paths are P: the one path of length one is
\* that state's name; otherwise the paths are grouped by their first state
\* and each group's remainders are recomposed under it.
Recompose(P) ==
  IF \E p \in P : P = {p} /\ Len(p) = 1
  THEN LET p == CHOOSE q \in P : TRUE IN Str(p[1])
  ELSE [t |-> "object",
        children |-> [k \in {p[1] : p \in P} |->
                        Recompose({Tail(p) : p \in {q \in P : q[1] = k}})]]

\* index.ts:436 Event = { type: string }; the second event is one a user
\* named like a request type.
EventShapes ==
  {[t |-> "object", type |-> Str("EVT")],
   [t |-> "object", type |-> Str("initialization")]}
\* index.ts:430 DefaultAuthContext
AuthContexts == {[t |-> "object", sub |-> Str("user-1")]}
\* The context of a machine instance, an object whose shape is the user's.
Contexts == {[t |-> "object"]}
MachineInstanceNames == {Str("i")}

\* index.ts:236 EventWriteRequest
EventWriteRequest(state) ==
  {[t |-> "object",
    type |-> Str("event"),
    machineInstanceName |-> min,
    state |-> state,
    context |-> context,
    event |-> event,
    authContext |-> authContext] :
     min \in MachineInstanceNames, context \in Contexts,
     event \in EventShapes, authContext \in AuthContexts}

\* index.ts:286 InitializationWriteRequest
InitializationWriteRequest ==
  {[t |-> "object",
    type |-> Str("initialization"),
    machineInstanceName |-> min,
    context |-> context,
    authContext |-> authContext] :
     min \in MachineInstanceNames, context \in Contexts,
     authContext \in AuthContexts}

\* Mutant: the single shape without a type field that a request to
\* initialize would be given were the two requests not told apart.
WriteRequest_SingleShape(state) ==
  {[t |-> "object",
    machineInstanceName |-> min,
    state |-> state,
    context |-> context,
    event |-> event,
    authContext |-> authContext] :
     min \in MachineInstanceNames, context \in Contexts,
     event \in EventShapes, authContext \in AuthContexts}

\* index.ts:221 WriteRequest = EventWriteRequest | InitializationWriteRequest,
\* for an instance whose state is state.
WriteRequest(state) == EventWriteRequest(state) \cup InitializationWriteRequest

\* ------------------------------------------------------------ the machine
NoCall == [fn |-> "none"]

\* No value of the types of index.ts is under consideration.
ContractIdle ==
  /\ stateValue = Undefined
  /\ statePaths = {}
  /\ recomposed = Undefined
  /\ writeRequest = Undefined

Init ==
  /\ rt \in RtStates
  /\ rtOld \in RtOldStates
  /\ last = NoCall
  /\ prevSource = NoCall
  /\ invocations = <<>>
  /\ ContractIdle

\* persistentInvocableSource was handed a machineInstanceName.
NameSupplied(call) ==
  /\ call.fn = "persistentInvocableSource"
  /\ ~Nullish(call.args[1].machineInstanceName)

\* One call of the exported function fn with args, having the effect e.  The
\* call is synchronous: nothing else runs between its first step and its last.
\* last.rt keeps what globalThis.__statebacked_rt held when the call was made.
Exported(fn, args, e) ==
  /\ last' = [fn |-> fn, rt |-> rt, args |-> args, argsAfter |-> e.argsAfter,
               outcome |-> e.outcome, result |-> e.result, uuids |-> e.uuids,
               hookCalls |-> e.hookCalls, trace |-> e.trace,
               userCalls |-> e.userCalls, constructed |-> e.constructed]
  /\ rt' = e.rtAfter
  /\ rtOld' = e.rtOldAfter
  /\ prevSource' = IF fn = "persistentInvocableSource" /\ NameSupplied(last)
                   THEN last ELSE NoCall
  /\ invocations' = <<>>
  /\ UNCHANGED contractVars

CallSpawnPersistentInstance ==
  \E d \in PersistentInstanceDescriptors, o \in SpawnOptionsSet :
    \E e \in spawnPersistentInstance(rt, rtOld, d, o) :
      Exported("spawnPersistentInstance", <<d, o>>, e)

CallSpawn ==
  \E d \in PersistentInstanceDescriptors, o \in SpawnOptionsSet :
    \E e \in spawn(rt, rtOld, d, o) :
      Exported("spawn", <<d, o>>, e)

CallSpawnEphemeralInstance ==
  \E entity \in XStateSpawnables, nameOrOptions \in NameOrOptionsSet :
    \E e \in spawnEphemeralInstance(rt, rtOld, entity, nameOrOptions) :
      Exported("spawnEphemeralInstance", <<entity, nameOrOptions>>, e)

CallPersistentInvocableSource ==
  \E d \in PersistentInstanceDescriptors :
    \E e \in persistentInvocableSource(rt, rtOld, d) :
      Exported("persistentInvocableSource", <<d>>, e)

CallInvocableSource ==
  \E d \in PersistentInstanceDescriptors :
    \E e \in invocableSource(rt, rtOld, d) :
      Exported("invocableSource", <<d>>, e)

CallSendTo ==
  \E actor \in Actors, event \in Events, opts \in SendOptsSet :
    \E e \in sendTo(rt, rtOld, actor, event, opts) :
      Exported("sendTo", <<actor, event, opts>>, e)

\* The runtime's action-execution step calls the event function of the action
\* object sendTo returned, with no arguments.
InvokeEvent ==
  /\ last.fn = "sendTo"
  /\ last.outcome = "return"
  /\ Len(invocations) < MaxInvocations
  /\ invocations' = Append(invocations, Invoke(last.result.event))
  /\ UNCHANGED <<rt, rtOld, last, prevSource>>
  /\ UNCHANGED contractVars

\* The host installs, replaces or removes its hook between calls.
HostSetsRt ==
  /\ \E g \in RtStates : rt' = g
  /\ UNCHANGED <<rtOld, last, prevSource, invocations>>
  /\ UNCHANGED contractVars

HostSetsRtOld ==
  /\ \E g \in RtOldStates : rtOld' = g
  /\ UNCHANGED <<rt, last, prevSource, invocations>>
  /\ UNCHANGED contractVars

Next ==
  \/ CallSpawnPersistentInstance
  \/ CallSpawn
  \/ CallSpawnEphemeralInstance
  \/ CallPersistentInvocableSource
  \/ CallInvocableSource
  \/ CallSendTo
  \/ InvokeEvent
  \/ HostSetsRt
  \/ HostSetsRtOld

Spec == Init /\ [][Next]_vars

\* ---------------------------------- the state and request types at work
\* An instance in any state value; no helper of rt.ts is called.
InitContract ==
  /\ rt = Undefined
  /\ rtOld = Undefined
  /\ last = NoCall
  /\ prevSource = NoCall
  /\ invocations = <<>>
  /\ stateValue \in StateValue
  /\ statePaths = {}
  /\ recomposed = Undefined
  /\ writeRequest = Undefined

\* The instance's state value is flattened to the paths of its leaf states.
DecomposeStateValue ==
  /\ statePaths = {}
  /\ statePaths' = Decompose(stateValue)
  /\ UNCHANGED <<stateValue, recomposed, writeRequest>>
  /\ UNCHANGED rtVars

\* A state value is rebuilt from the paths.
RecomposeStatePaths ==
  /\ statePaths # {}
  /\ recomposed = Undefined
  /\ recomposed' = Recompose(statePaths)
  /\ UNCHANGED <<stateValue, statePaths, writeRequest>>
  /\ UNCHANGED rtVars

\* index.ts:170 the machine definition's allowWrite is handed a request
\* about the instance.
CallAllowWrite ==
  /\ \E w \in WriteRequest(stateValue) : writeRequest' = w
  /\ UNCHANGED <<stateValue, statePaths, recomposed>>
  /\ UNCHANGED rtVars

NextContract ==
  \/ DecomposeStateValue
  \/ RecomposeStatePaths
  \/ CallAllowWrite

SpecContract == InitContract /\ [][NextContract]_vars

\* ------------------------------------------------------------- the claims
\* typeof globalThis?.__statebacked_rt?.spawn === "function" held when the
\* call was made.
SpawnIsFunction(call) == typeof(OptionalSpawn(call.rt)) = "function"

\* A string with at least one character.
NonEmptyString(v) == v.t = "string" /\ v.s # ""

\* The call delegated: one call of the host's spawn with the call's own
\* arguments, nothing drawn and nothing built, and the call ended as the
\* host's call ended, with its value.
Delegated(call) ==
  /\ Len(call.hookCalls) = 1
  /\ call.hookCalls[1].global = "__statebacked_rt"
  /\ call.hookCalls[1].args = call.args
  /\ call.outcome = call.hookCalls[1].outcome
  /\ call.result = call.hookCalls[1].value
  /\ call.uuids = <<>>
  /\ call.constructed = 0

\* C1: with no spawn function to delegate to (the global absent, or its spawn
\* not a function), spawnPersistentInstance called with a descriptor holding
\* only machineName and with no opts returns a reference of type
\* "statebacked.instance" with the descriptor's machineName, whose id and
\* machineInstanceName are the two identifiers it drew, both non-empty.
C1_LocalReference ==
  (/\ last.fn = "spawnPersistentInstance"
   /\ ~SpawnIsFunction(last)
   /\ last.args[1].machineInstanceName = Undefined
   /\ last.args[1].machineVersionId = Undefined
   /\ last.args[2] = Undefined)
  => /\ last.outcome = "return"
     /\ last.result.type = Str("statebacked.instance")
     /\ last.result.machineName = last.args[1].machineName
     /\ Len(last.uuids) = 2
     /\ last.result.id = last.uuids[1]
     /\ last.result.machineInstanceName = last.uuids[2]
     /\ NonEmptyString(last.result.id)
     /\ NonEmptyString(last.result.machineInstanceName)

C1_Witness ==
  /\ last.fn = "spawnPersistentInstance"
  /\ last.rt = Undefined
  /\ last.args = <<[t |-> "object", machineName |-> Str("m"),
                    machineInstanceName |-> Undefined,
                    machineVersionId |-> Undefined], Undefined>>
  /\ last.outcome = "return"
  /\ last.result.id # last.result.machineInstanceName

\* C2 as stated: with a spawn function exposed the call delegates, and a local
\* reference is built only when the global __statebacked_rt is absent.
C2_LocalOnlyWhenAbsent ==
  last.fn = "spawnPersistentInstance"
  => /\ SpawnIsFunction(last) => Delegated(last)
     /\ last.constructed > 0 => Nullish(last.rt)

\* C2, amended: with a spawn function exposed the call delegates (one call of
\* the host's spawn with the same descriptor and opts, its result returned or
\* its error propagated unchanged, nothing drawn, nothing built); a local
\* reference is built only when no spawn function is exposed, which is so
\* when the global is absent and also when it is an object whose spawn is not
\* a function.
C2_DelegatesOrLocal ==
  last.fn = "spawnPersistentInstance"
  => /\ SpawnIsFunction(last) => Delegated(last)
     /\ (last.constructed > 0 \/ last.uuids # <<>>)
          => (~SpawnIsFunction(last) /\ last.hookCalls = <<>>)

C2_Witness ==
  /\ last.fn = "spawnPersistentInstance"
  /\ SpawnIsFunction(last)
  /\ last.outcome = "return"
  /\ last.result = HostRef(1)
  /\ last.args[1].machineInstanceName = Undefined

\* C3: spawnEphemeralInstance uses the global without testing it: with a
\* spawn function there it delegates with exactly (entity, nameOrOptions) and
\* ends as the host's call ends; in every other state it throws and returns
\* nothing, having called and built nothing.
C3_EphemeralDelegatesOrThrows ==
  last.fn = "spawnEphemeralInstance"
  => /\ last.trace = <<Use("__statebacked_rt")>>
     /\ IF SpawnIsFunction(last)
        THEN Delegated(last)
        ELSE /\ last.outcome = "throw"
             /\ last.result = TypeError
             /\ last.hookCalls = <<>>
             /\ last.constructed = 0

C3_Witness ==
  /\ last.fn = "spawnEphemeralInstance"
  /\ last.rt = Undefined
  /\ last.outcome = "throw"

\* Every use of a global in the trace comes after a test of that global.
UsesAreChecked(trace) ==
  \A i \in DOMAIN trace :
    trace[i].op = "use"
      => \E j \in 1..(i - 1) : trace[j] = Check(trace[i].global)

\* C4 as stated: every exported function tests the hook before it uses it,
\* and none installs, replaces or removes a hook.
C4_EveryUseChecked ==
  [][last' # last
       => /\ UsesAreChecked(last'.trace)
          /\ rt' = rt
          /\ rtOld' = rtOld]_vars

\* C4, amended: every exported function except spawnEphemeralInstance tests
\* the hook before it uses it; spawnEphemeralInstance uses it with no test;
\* and no exported function installs, replaces or removes a hook.
C4_UseCheckedExceptEphemeral ==
  [][last' # last
       => /\ IF last'.fn = "spawnEphemeralInstance"
             THEN last'.trace = <<Use("__statebacked_rt")>>
             ELSE UsesAreChecked(last'.trace)
          /\ rt' = rt
          /\ rtOld' = rtOld]_vars

C4_Witness ==
  /\ last.fn = "spawnPersistentInstance"
  /\ last.trace = <<Check("__statebacked_rt"), Use("__statebacked_rt")>>
  /\ last.hookCalls # <<>>
  /\ rt = last.rt

\* C5: persistentInvocableSource returns exactly type, machineName,
\* machineInstanceName and machineVersionId, the last three the descriptor's
\* own, with nothing drawn, whenever the descriptor supplies
\* machineInstanceName (any string); when it does not, machineInstanceName is
\* the one identifier drawn and the other fields are the same.
C5_InvokeSourceFields ==
  last.fn = "persistentInvocableSource"
  => LET d == last.args[1]
     IN /\ last.outcome = "return"
        /\ DOMAIN last.result =
             {"t", "type", "machineName", "machineInstanceName", "machineVersionId"}
        /\ last.result.type = Str("statebacked.invoke")
        /\ last.result.machineName = d.machineName
        /\ last.result.machineVersionId = d.machineVersionId
        /\ IF d.machineInstanceName.t = "string"
           THEN /\ last.result.machineInstanceName = d.machineInstanceName
                /\ last.uuids = <<>>
           ELSE /\ last.uuids = <<last.result.machineInstanceName>>
                /\ last.result.machineInstanceName \in UUIDs

C5_Witness ==
  /\ last.fn = "persistentInvocableSource"
  /\ last.args[1].machineInstanceName = Str("")
  /\ last.args[1].machineVersionId = Undefined
  /\ last.result.machineInstanceName = Str("")
  /\ last.result.machineVersionId = Undefined

\* C6: persistentInvocableSource neither tests nor calls the hook, and two
\* calls of it with equal descriptors that supply machineInstanceName return
\* equal results, whatever the hook was at either call.
C6_SourceIgnoresHook ==
  /\ last.fn = "persistentInvocableSource"
       => (last.trace = <<>> /\ last.hookCalls = <<>>)
  /\ (NameSupplied(last) /\ NameSupplied(prevSource)
        /\ prevSource.args = last.args)
       => (last.outcome = prevSource.outcome /\ last.result = prevSource.result)

C6_Witness ==
  /\ NameSupplied(last)
  /\ NameSupplied(prevSource)
  /\ prevSource.args = last.args
  /\ prevSource.rt = Undefined
  /\ SpawnIsFunction(last)
  /\ last.result = prevSource.result

\* C7: for an event that is not a function, the event field of what sendTo
\* returns is a function, and every invocation of it with no arguments
\* returns that event.
C7_EventThunkReturnsEvent ==
  (last.fn = "sendTo" /\ typeof(last.args[2]) # "function")
  => /\ last.outcome = "return"
     /\ typeof(last.result.event) = "function"
     /\ \A i \in DOMAIN invocations :
          invocations[i] = [outcome |-> "return", value |-> last.args[2]]

C7_Witness ==
  /\ last.fn = "sendTo"
  /\ last.args[1] = Str("actorId")
  /\ last.args[2] = [t |-> "object", type |-> Str("EVT")]
  /\ Len(invocations) >= 2
  /\ invocations[2].value = [t |-> "object", type |-> Str("EVT")]

\* C8: sendTo returns exactly {type: "xstate.send", to, event, delay, id}
\* with to the actor argument as given, delay and id those of opts, both
\* undefined when opts is omitted; it calls neither the actor function, the
\* event function nor the hook.
C8_SendActionObject ==
  last.fn = "sendTo"
  => /\ last.outcome = "return"
     /\ DOMAIN last.result = {"t", "type", "to", "event", "delay", "id"}
     /\ last.result.type = Str("xstate.send")
     /\ last.result.to = last.args[1]
     /\ IF last.args[3] = Undefined
        THEN last.result.delay = Undefined /\ last.result.id = Undefined
        ELSE /\ last.result.delay = last.args[3].delay
             /\ last.result.id = last.args[3].id
     /\ last.userCalls = <<>>
     /\ last.hookCalls = <<>>
     /\ last.trace = <<>>

C8_Witness ==
  /\ last.fn = "sendTo"
  /\ typeof(last.args[1]) = "function"
  /\ typeof(last.args[2]) = "function"
  /\ last.args[3] # Undefined
  /\ last.result.to = last.args[1]
  /\ last.result.delay = Num(100)

\* C9: a call of persistentInvocableSource, invocableSource or sendTo leaves
\* its arguments and both globals as they were and calls nothing; a call of a
\* spawn helper makes at most one call of the host's spawn or builds at most
\* one object, never both, and leaves its descriptor and opts as they were.
C9_FrameOfEveryCall ==
  [][last' # last
       => /\ last'.argsAfter = last'.args
          /\ last'.userCalls = <<>>
          /\ IF last'.fn \in {"spawnPersistentInstance", "spawnEphemeralInstance", "spawn"}
             THEN Len(last'.hookCalls) + last'.constructed <= 1
             ELSE /\ last'.hookCalls = <<>>
                  /\ last'.trace = <<>>
                  /\ rt' = rt
                  /\ rtOld' = rtOld]_vars

C9_Witness ==
  /\ last.fn = "persistentInvocableSource"
  /\ Nullish(last.args[1].machineInstanceName)
  /\ last.uuids # <<>>
  /\ last.argsAfter = last.args
  /\ rt = last.rt

\* C18: in the local path of spawnPersistentInstance an identifier is drawn
\* for id exactly when opts?.name is null or undefined and for
\* machineInstanceName exactly when the descriptor's is null or undefined,
\* each independently of the other; a supplied string, the empty one
\* included, is kept; machineVersionId is the descriptor's and type is
\* "statebacked.instance" whatever properties the descriptor has.
C18_LocalFieldsIndependent ==
  (last.fn = "spawnPersistentInstance" /\ ~SpawnIsFunction(last))
  => LET d == last.args[1]
         name == OptionalName(last.args[2])
         min == d.machineInstanceName
         n == Len(last.uuids)
     IN /\ last.outcome = "return"
        /\ n = (IF Nullish(name) THEN 1 ELSE 0) + (IF Nullish(min) THEN 1 ELSE 0)
        /\ last.result.id = IF Nullish(name) THEN last.uuids[1] ELSE name
        /\ last.result.machineInstanceName = IF Nullish(min) THEN last.uuids[n] ELSE min
        /\ \A i \in 1..n : last.uuids[i] \in UUIDs
        /\ last.result.machineVersionId = d.machineVersionId
        /\ last.result.machineName = d.machineName
        /\ last.result.type = Str("statebacked.instance")

C18_Witness ==
  /\ last.fn = "spawnPersistentInstance"
  /\ ~SpawnIsFunction(last)
  /\ last.args[1].machineInstanceName = Str("")
  /\ last.args[1].machineVersionId = Str("ver_1")
  /\ last.args[2] = [t |-> "object", name |-> Undefined]
  /\ last.result.machineInstanceName = Str("")
  /\ last.result.id \in UUIDs
  /\ last.uuids = <<last.result.id>>

\* C19: the event field of what sendTo returns is always a function: an
\* event that is a function is that very function, neither wrapped nor
\* called by sendTo, and an event that is not is wrapped.
C19_EventFieldIsFunction ==
  last.fn = "sendTo"
  => /\ last.outcome = "return"
     /\ typeof(last.result.event) = "function"
     /\ last.userCalls = <<>>
     /\ IF typeof(last.args[2]) = "function"
        THEN last.result.event = last.args[2]
        ELSE last.result.event = Thunk(last.args[2])

C19_Witness ==
  /\ last.fn = "sendTo"
  /\ last.args[2] = UserFn("eventFn")
  /\ last.result.event = UserFn("eventFn")
  /\ Len(invocations) >= 1
  /\ invocations[1].value = [t |-> "object", type |-> Str("eventFn")]

\* The global __statebacked_rt was an object whose spawn is not a function
\* when the call was made.
SpawnNotFunction(call) == ~Nullish(call.rt) /\ typeof(call.rt.spawn) # "function"

\* C20: with __statebacked_rt installed and its spawn not a function,
\* spawnPersistentInstance returns a locally built reference and
\* spawnEphemeralInstance throws; either helper calls the host's spawn
\* exactly when spawn is a function.
C20_NonFunctionSpawn ==
  /\ (last.fn = "spawnPersistentInstance" /\ SpawnNotFunction(last))
       => /\ last.outcome = "return"
          /\ last.constructed = 1
          /\ last.hookCalls = <<>>
          /\ last.result.type = Str("statebacked.instance")
  /\ (last.fn = "spawnEphemeralInstance" /\ SpawnNotFunction(last))
       => /\ last.outcome = "throw"
          /\ last.hookCalls = <<>>
  /\ last.fn \in {"spawnPersistentInstance", "spawnEphemeralInstance"}
       => (last.hookCalls # <<>> <=> SpawnIsFunction(last))

C20_Witness ==
  /\ last.fn = "spawnPersistentInstance"
  /\ last.rt = [t |-> "object", spawn |-> Undefined]
  /\ rt = last.rt
  /\ last.outcome = "return"
  /\ last.constructed = 1

\* The fields of a request object.
Fields(w) == DOMAIN w \ {"t"}

\* C16: decomposing a well-formed state value (a name, or an object with at
\* least one key at every level) into the paths of its leaf states and
\* recomposing a state value from those paths gives back a value equal to
\* the one decomposed.
C16_RoundTrip ==
  recomposed # Undefined => recomposed = stateValue

C16_Witness ==
  /\ recomposed = stateValue
  /\ stateValue.t = "object"
  /\ DOMAIN stateValue.children = {"a", "b"}
  /\ stateValue.children["a"] = Str("b")
  /\ stateValue.children["b"].t = "object"
  /\ statePaths = {<<"a", "b">>, <<"b", "a", "a">>, <<"b", "b", "a">>}

C21_SpawnWithoutOptsReturns ==
  [][(/\ last' # last
      /\ last'.fn = "spawn"
      /\ Nullish(last'.args[2])
      /\ rt = Undefined
      /\ rtOld = Undefined)
       => /\ last'.outcome = "return"
          /\ last'.result.type = Str("statebacked.instance")
          /\ last'.result.id \in UUIDs
          /\ IF Nullish(last'.args[1].machineInstanceName)
             THEN last'.result.machineInstanceName \in UUIDs
             ELSE last'.result.machineInstanceName
                    = last'.args[1].machineInstanceName]_vars

\* What a call can end in: how it ended and with what value.
Outcomes(effects) == {<<e.outcome, e.result>> : e \in effects}

\* C22: spawn and spawnPersistentInstance consult the same global: with
\* globalThis.__statebacked_rt.spawn a function either of them delegates to
\* it and ends as it ends, and in every state of the globals, for every
\* descriptor and opts, what the one can end in the other can end in too.
C22_SameHook ==
  [][last' # last
       => /\ (last'.fn \in {"spawn", "spawnPersistentInstance"}
                /\ SpawnIsFunction(last'))
               => Delegated(last')
          /\ last'.fn = "spawn"
               => <<last'.outcome, last'.result>>
                    \in Outcomes(spawnPersistentInstance(rt, rtOld,
                                   last'.args[1], last'.args[2]))
          /\ last'.fn = "spawnPersistentInstance"
               => <<last'.outcome, last'.result>>
                    \in Outcomes(spawn(rt, rtOld,
                                   last'.args[1], last'.args[2]))]_vars

====
